---- MODULE Spec2Model ----
(***************************************************************************)
(* Model of the subset-sum solvers of rust_solver: the algorithm selector  *)
(* of lib.rs and the four solvers bit_enum.rs, meet_middle.rs,             *)
(* dynamic_prog.rs and branch_bound.rs.                                    *)
(*                                                                         *)
(* Rust slices are 0-based; numbers is a TLA+ sequence, so the element the *)
(* code calls numbers[i] is numbers[i + 1] here.  Index lists hold the     *)
(* 0-based positions the code returns.                                     *)
(***************************************************************************)
EXTENDS Integers, Sequences, FiniteSets, Bags, TLC

VARIABLES numbers, target, precision, find_all, algorithm, num_cpus,
          phase, solver, results, found, results_lock, pc, mask, pos,
          ret, call, prev_sums

vars == <<numbers, target, precision, find_all, algorithm, num_cpus,
          phase, solver, results, found, results_lock, pc, mask, pos,
          ret, call, prev_sums>>

problem == <<numbers, target, precision, find_all, algorithm, num_cpus>>

----------------------------------------------------------------------------
(* Bounds of the checked instances *)

MaxLen == 2
MaxVal == 2
MaxTarget == 2
MaxPrecision == 1
MaxWorkers == 3
MaxSelLen == 42
MaxArr == 4

Vals == -1 .. MaxVal
Targets == -1 .. MaxTarget
Precisions == 0 .. MaxPrecision

SolverNames == {"bit_enum", "meet_middle", "dp", "branch_bound"}
OtherNames == {"auto", "", "DP", "bitenum"}

SeqsUpTo(S, n) == UNION {[1 .. k -> S] : k \in 0 .. n}

----------------------------------------------------------------------------
(* Helpers shared by the solvers *)

Min(a, b) == IF a < b THEN a ELSE b

Abs(x) == IF x < 0 THEN -x ELSE x

BitOffByOne(m, i) == (m \div (2 ^ (i + 1))) % 2 = 1

\* (mask & (1 << i)) != 0
Bit(m, i) == (m \div (2 ^ i)) % 2 = 1

\* indices.iter().map(|&i| numbers[i]).sum()
RECURSIVE SumAt(_, _)
SumAt(nums, indices) ==
    IF indices = <<>> THEN 0
    ELSE nums[Head(indices) + 1] + SumAt(nums, Tail(indices))

\* the positions base, base+1, .. base+cnt-1 whose bit (relative to base) is
\* set in m, in ascending order: the inner "for i in 0..cnt" loops
MaskIndices(m, base, cnt) ==
    SelectSeq([k \in 1 .. cnt |-> base + k - 1], LAMBDA x : Bit(m, x - base))

IsMatchNoAbs(sum, t, p) ==
    IF p = 0 THEN sum = t ELSE sum - t <= p

\* is_match: exact when precision = 0, else |sum - target| <= precision
IsMatch(sum, t, p) ==
    IF p = 0 THEN sum = t ELSE Abs(sum - t) <= p

\* stable insertion of record x (field key) into a sequence sorted ascending
\* by key: x goes after every element whose key is <= x.key
RECURSIVE InsertByKey(_, _)
InsertByKey(s, x) ==
    IF s = <<>> THEN <<x>>
    ELSE IF s[Len(s)].key <= x.key THEN Append(s, x)
    ELSE Append(InsertByKey(SubSeq(s, 1, Len(s) - 1), x), s[Len(s)])

\* slice::sort_by: a stable sort, ascending by key
RECURSIVE StableSort(_)
StableSort(s) ==
    IF s = <<>> THEN <<>>
    ELSE InsertByKey(StableSort(SubSeq(s, 1, Len(s) - 1)), s[Len(s)])

----------------------------------------------------------------------------
(* lib.rs: algorithm selection *)

AutoSelectOffByOne(n) ==
    IF n < 25 THEN "bit_enum"
    ELSE IF n < 40 THEN "meet_middle"
    ELSE "branch_bound"

AutoSelect(n) ==
    IF n <= 25 THEN "bit_enum"
    ELSE IF n <= 40 THEN "meet_middle"
    ELSE "branch_bound"

Dispatch(name, n) ==
    IF name \in SolverNames THEN name ELSE AutoSelect(n)

----------------------------------------------------------------------------
(* bit_enum.rs *)

MaxCombinations(n) == IF n >= 30 THEN 2 ^ 30 ELSE 2 ^ n

BlockSizeExact(total, cpus) == total \div cpus

BlockSize(total, cpus) == (total \div cpus) + 1

BlockStart(total, cpus, cpu_id) == cpu_id * BlockSize(total, cpus)

BlockEndInclusive(total, cpus, cpu_id) ==
    Min(BlockStart(total, cpus, cpu_id) + BlockSize(total, cpus), total) + 1

\* end = min(start + block_size, max_combinations), exclusive
BlockEnd(total, cpus, cpu_id) ==
    Min(BlockStart(total, cpus, cpu_id) + BlockSize(total, cpus), total)

BitIndices(m) == MaskIndices(m, 0, Min(Len(numbers), 64))

BitTotal == MaxCombinations(Len(numbers))

\* the worker's position after finishing mask m: next mask or end of range
Advance(w, total) ==
    IF mask[w] + 1 < BlockEnd(total, num_cpus, w)
    THEN /\ mask' = [mask EXCEPT ![w] = mask[w] + 1]
         /\ pc' = [pc EXCEPT ![w] = "check"]
    ELSE /\ mask' = mask
         /\ pc' = [pc EXCEPT ![w] = "done"]

\* a worker at "flag" holds the lock of the early-exit flag
FoundLocked == \E w \in DOMAIN pc : pc[w] = "flag"

\* where a worker reads the flag: !find_all && *found.lock().unwrap() takes
\* the flag lock only when find_all is false
LoopHead == IF find_all THEN "check" ELSE "flag"

\* found.lock() at the loop head of either parallel solver
LockFound(w) ==
    /\ phase = "running" /\ solver \in {"bit_enum", "meet_middle"}
    /\ ~find_all /\ pc[w] = "check"
    /\ ~FoundLocked
    /\ pc' = [pc EXCEPT ![w] = "flag"]
    /\ UNCHANGED <<problem, phase, solver, results, found, results_lock,
                   mask, pos, ret, call, prev_sums>>

\* loop head: early-exit test on the flag (its guard drops with the test),
\* then the match test of one mask
BitCheck(w) ==
    /\ phase = "running" /\ solver = "bit_enum" /\ pc[w] = LoopHead
    /\ IF ~find_all /\ found
       THEN pc' = [pc EXCEPT ![w] = "done"] /\ mask' = mask
       ELSE IF IsMatch(SumAt(numbers, BitIndices(mask[w])), target, precision)
            THEN pc' = [pc EXCEPT ![w] = "push"] /\ mask' = mask
            ELSE Advance(w, BitTotal)
    /\ UNCHANGED <<problem, phase, solver, results, found, results_lock, pos,
                   ret, call, prev_sums>>

BitPushUnlocked(w) ==
    /\ phase = "running" /\ solver = "bit_enum" /\ pc[w] = "push"
    /\ results_lock = -1
    /\ results' = Append(results, BitIndices(mask[w]))
    /\ IF find_all
       THEN Advance(w, BitTotal) /\ results_lock' = -1
       ELSE /\ pc' = [pc EXCEPT ![w] = "setfound"]
            /\ mask' = mask
            /\ results_lock' = -1
    /\ UNCHANGED <<problem, phase, solver, found, pos, ret, call, prev_sums>>

\* results_guard = results.lock(); results_guard.push(indices)
BitPush(w) ==
    /\ phase = "running" /\ solver = "bit_enum" /\ pc[w] = "push"
    /\ results_lock = -1
    /\ results' = Append(results, BitIndices(mask[w]))
    /\ IF find_all
       THEN Advance(w, BitTotal) /\ results_lock' = -1
       ELSE /\ pc' = [pc EXCEPT ![w] = "setfound"]
            /\ mask' = mask
            /\ results_lock' = w
    /\ UNCHANGED <<problem, phase, solver, found, pos, ret, call, prev_sums>>

BitSetFoundRelock(w) ==
    /\ phase = "running" /\ solver = "bit_enum" /\ pc[w] = "setfound"
    /\ results_lock = -1
    /\ ~FoundLocked
    /\ found' = TRUE
    /\ results_lock' = -1
    /\ pc' = [pc EXCEPT ![w] = "done"]
    /\ UNCHANGED <<problem, phase, solver, results, mask, pos, ret, call,
                   prev_sums>>

\* found_guard = found.lock(); *found_guard = true; break  (both guards drop)
BitSetFound(w) ==
    /\ phase = "running" /\ solver = "bit_enum" /\ pc[w] = "setfound"
    /\ results_lock = w
    /\ ~FoundLocked
    /\ found' = TRUE
    /\ results_lock' = -1
    /\ pc' = [pc EXCEPT ![w] = "done"]
    /\ UNCHANGED <<problem, phase, solver, results, mask, pos, ret, call,
                   prev_sums>>

TruncateLast(fa, final_results) ==
    IF ~fa /\ Len(final_results) > 1
    THEN <<final_results[Len(final_results)]>>
    ELSE final_results

TruncateNever(fa, final_results) == final_results

TruncateAlways(fa, final_results) ==
    IF Len(final_results) > 1 THEN <<final_results[1]>> ELSE final_results

\* if !find_all && final_results.len() > 1 { return vec![final_results[0]] }
Truncate(fa, final_results) ==
    IF ~fa /\ Len(final_results) > 1 THEN <<final_results[1]>>
    ELSE final_results

AllDone == \A w \in DOMAIN pc : pc[w] = "done"

BitReturn ==
    /\ phase = "running" /\ solver = "bit_enum" /\ AllDone
    /\ results_lock = -1
    /\ ret' = Truncate(find_all, results)
    /\ phase' = "done"
    /\ UNCHANGED <<problem, solver, results, found, results_lock, pc, mask,
                   pos, call, prev_sums>>

----------------------------------------------------------------------------
(* meet_middle.rs *)

Mid(n) == n \div 2

\* the (sum, indices) pairs of the first half, in mask order, then sorted by
\* sum (first_half.sort_by(|a, b| a.0.cmp(&b.0)))
FirstHalf(nums) ==
    StableSort([k \in 1 .. 2 ^ Mid(Len(nums)) |->
        [key |-> SumAt(nums, MaskIndices(k - 1, 0, Mid(Len(nums)))),
         indices |-> MaskIndices(k - 1, 0, Mid(Len(nums)))]])

\* the while loop of binary_search_lower_bound, arr[i] being arr[i + 1] here
RECURSIVE LowerBoundLoop(_, _, _, _)

LowerBoundLoopUpper(arr, t, left, right) ==
    IF left < right
    THEN LET mid == left + (right - left) \div 2
         IN  IF arr[mid + 1].key <= t
             THEN LowerBoundLoop(arr, t, mid + 1, right)
             ELSE LowerBoundLoop(arr, t, left, mid)
    ELSE left

LowerBoundLoop(arr, t, left, right) ==
    IF left < right
    THEN LET mid == left + (right - left) \div 2
         IN  IF arr[mid + 1].key < t
             THEN LowerBoundLoop(arr, t, mid + 1, right)
             ELSE LowerBoundLoop(arr, t, left, mid)
    ELSE left

binary_search_lower_bound(arr, t) == LowerBoundLoop(arr, t, 0, Len(arr))

SecondHalfLen(n) == n - Mid(n)

MmTotal == 2 ^ SecondHalfLen(Len(numbers))

MmIndicesNoOffset(m) ==
    MaskIndices(m, 0, SecondHalfLen(Len(numbers)))

MmIndices(m) ==
    MaskIndices(m, Mid(Len(numbers)), SecondHalfLen(Len(numbers)))

MmLowerNoTolerance(m) == target - SumAt(numbers, MmIndices(m))

\* lower_bound and upper_bound of the window searched for second-half mask m
MmLower(m) == (target - SumAt(numbers, MmIndices(m))) - precision

MmUpper(m) == (target - SumAt(numbers, MmIndices(m))) + precision

MmInWindowStrict(m, p) ==
    /\ p < Len(FirstHalf(numbers))
    /\ ~(FirstHalf(numbers)[p + 1].key >= MmUpper(m))

\* the inner for loop is at position p and does not break on the upper bound
MmInWindow(m, p) ==
    /\ p < Len(FirstHalf(numbers))
    /\ ~(FirstHalf(numbers)[p + 1].key > MmUpper(m))

\* loop head: early-exit test on the flag, then the binary search
MmCheck(w) ==
    /\ phase = "running" /\ solver = "meet_middle" /\ pc[w] = LoopHead
    /\ IF ~find_all /\ found
       THEN pc' = [pc EXCEPT ![w] = "done"] /\ mask' = mask /\ pos' = pos
       ELSE LET start_pos ==
                    binary_search_lower_bound(FirstHalf(numbers),
                                              MmLower(mask[w]))
            IN  IF MmInWindow(mask[w], start_pos)
                THEN /\ pc' = [pc EXCEPT ![w] = "push"]
                     /\ pos' = [pos EXCEPT ![w] = start_pos]
                     /\ mask' = mask
                ELSE Advance(w, MmTotal) /\ pos' = pos
    /\ UNCHANGED <<problem, phase, solver, results, found, results_lock,
                   ret, call, prev_sums>>

\* combined_indices = indices1 ++ indices; results_guard.push(combined)
MmPush(w) ==
    /\ phase = "running" /\ solver = "meet_middle" /\ pc[w] = "push"
    /\ results_lock = -1
    /\ results' = Append(results,
                         FirstHalf(numbers)[pos[w] + 1].indices
                            \o MmIndices(mask[w]))
    /\ IF find_all
       THEN /\ results_lock' = -1
            /\ IF MmInWindow(mask[w], pos[w] + 1)
               THEN /\ pos' = [pos EXCEPT ![w] = pos[w] + 1]
                    /\ UNCHANGED <<pc, mask>>
               ELSE Advance(w, MmTotal) /\ pos' = pos
       ELSE /\ pc' = [pc EXCEPT ![w] = "setfound"]
            /\ results_lock' = w
            /\ UNCHANGED <<mask, pos>>
    /\ UNCHANGED <<problem, phase, solver, found, ret, call, prev_sums>>

\* *found_guard = true; break leaves the inner loop only: the worker goes on
\* to the head of the mask loop
MmSetFound(w) ==
    /\ phase = "running" /\ solver = "meet_middle" /\ pc[w] = "setfound"
    /\ results_lock = w
    /\ ~FoundLocked
    /\ found' = TRUE
    /\ results_lock' = -1
    /\ Advance(w, MmTotal)
    /\ UNCHANGED <<problem, phase, solver, results, pos, ret, call,
                   prev_sums>>

\* final_results is returned as collected
MmReturn ==
    /\ phase = "running" /\ solver = "meet_middle" /\ AllDone
    /\ results_lock = -1
    /\ ret' = results
    /\ phase' = "done"
    /\ UNCHANGED <<problem, solver, results, found, results_lock, pc, mask,
                   pos, call, prev_sums>>

----------------------------------------------------------------------------
(* dynamic_prog.rs: find_subset_sum_dp_raw *)

\* usize is 64 bits wide in the build; the model keeps the wrap-around of the
\* "as usize" casts with a modulus of 2^30, which is as far above every value
\* of the checked instances as 2^64 is and fits the integers of TLC
UsizeModulus == 2 ^ 30

\* the largest length a Vec can be asked for (isize::MAX, scaled alike)
IsizeMax == (UsizeModulus \div 2) - 1

\* x as usize: two's complement reinterpretation of an i64
AsUsize(x) == x % UsizeModulus

\* a + b on usize: panics when overflow checks are compiled in (debug
\* profile), wraps otherwise (release profile)
UsizeAdd(a, b, overflow_checks) ==
    IF a + b >= UsizeModulus
    THEN [panic |-> overflow_checks, val |-> (a + b) % UsizeModulus]
    ELSE [panic |-> FALSE, val |-> a + b]

\* (target as usize) + 1 + (precision as usize), the row length of dp
DpWidth(t, p, overflow_checks) ==
    LET a == UsizeAdd(AsUsize(t), 1, overflow_checks)
        b == UsizeAdd(a.val, AsUsize(p), overflow_checks)
    IN  [panic |-> a.panic \/ b.panic, val |-> b.val]

\* target as usize + precision as usize, the last column the fill loop visits
DpLastCol(t, p, overflow_checks) ==
    UsizeAdd(AsUsize(t), AsUsize(p), overflow_checks)

\* row i of the table after the fill loop, as a function on 0 .. width - 1
RECURSIVE DpRow(_, _, _, _)
DpRow(nums, width, last, i) ==
    IF i = 0 THEN [j \in 0 .. width - 1 |-> j = 0]
    ELSE LET prev == DpRow(nums, width, last, i - 1)
             val == AsUsize(nums[i])
         IN  [j \in 0 .. width - 1 |->
                 IF j <= last
                 THEN prev[j] \/ (j >= val /\ prev[j - val])
                 ELSE j = 0]

DpTable(nums, width, last) ==
    [i \in 0 .. Len(nums) |-> DpRow(nums, width, last, i)]

\* path.iter().enumerate().filter(included).map(idx), path[i] being
\* path[i + 1] here
PathIndices(path) ==
    SelectSeq([k \in 1 .. Len(path) |-> k - 1], LAMBDA x : path[x + 1])

\* back_track: the value is the result list so far and the returned flag
RECURSIVE back_track(_, _, _, _, _, _, _, _, _)
back_track(i, j, path, nums, dp, t, p, res, fa) ==
    IF i = 0
    THEN IF IsMatch(SumAt(nums, PathIndices(path)), t, p)
         THEN [res |-> Append(res, PathIndices(path)), stop |-> ~fa]
         ELSE [res |-> res, stop |-> FALSE]
    ELSE LET excl == IF dp[i - 1][j]
                     THEN back_track(i - 1, j, [path EXCEPT ![i] = FALSE],
                                     nums, dp, t, p, res, fa)
                     ELSE [res |-> res, stop |-> FALSE]
             val == AsUsize(nums[i])
         IN  IF excl.stop THEN excl
             ELSE IF j >= val /\ dp[i - 1][j - val]
                  THEN back_track(i - 1, j - val, [path EXCEPT ![i] = TRUE],
                                  nums, dp, t, p, excl.res, fa)
                  ELSE [res |-> excl.res, stop |-> FALSE]

\* target_range: the columns the solutions are collected from
TargetRange(t, p, width) ==
    IF p = 0 THEN <<AsUsize(t)>>
    ELSE LET lower_bound == AsUsize(t - p)
             upper_bound == AsUsize(t + p)
         IN  SelectSeq([k \in 1 .. (upper_bound - lower_bound + 1) |->
                            lower_bound + k - 1],
                       LAMBDA j : j < width)

\* for j in target_range { .. }
RECURSIVE DpCollect(_, _, _, _, _, _, _)
DpCollect(range, nums, dp, t, p, res, fa) ==
    IF range = <<>> THEN res
    ELSE LET j == Head(range)
             n == Len(nums)
         IN  IF j \in DOMAIN dp[0] /\ dp[n][j]
             THEN LET r == back_track(n, j, [k \in 1 .. n |-> FALSE], nums,
                                      dp, t, p, res, fa).res
                  IN  IF ~fa /\ r # <<>> THEN r
                      ELSE DpCollect(Tail(range), nums, dp, t, p, r, fa)
             ELSE DpCollect(Tail(range), nums, dp, t, p, res, fa)

\* the whole call: a panic (overflow check, capacity overflow of the table
\* allocation, dp[0][0] out of range) or the returned list
find_subset_sum_dp_raw(nums, t, p, fa, overflow_checks) ==
    LET width == DpWidth(t, p, overflow_checks)
        last == DpLastCol(t, p, overflow_checks)
    IN  IF width.panic \/ width.val > IsizeMax \/ width.val = 0 \/ last.panic
        THEN [panic |-> TRUE, res |-> <<>>]
        ELSE [panic |-> FALSE,
              res |-> DpCollect(TargetRange(t, p, width.val), nums,
                                DpTable(nums, width.val, last.val),
                                t, p, <<>>, fa)]

\* the solver is serial: one step from the call to its return or its panic
DpSolve ==
    /\ phase = "running" /\ solver = "dp"
    /\ \E overflow_checks \in BOOLEAN :
          LET out == find_subset_sum_dp_raw(numbers, target, precision,
                                            find_all, overflow_checks)
          IN  IF out.panic
              THEN phase' = "panic" /\ ret' = ret
              ELSE phase' = "done" /\ ret' = out.res
    /\ UNCHANGED <<problem, solver, results, found, results_lock, pc, mask,
                   pos, call, prev_sums>>

\* memo.insert(key, result)
MemoInsert(memo, key, result) ==
    [k \in DOMAIN memo \cup {key} |-> IF k = key THEN result ELSE memo[k]]

\* for mut path in with_current { path.push(index); result.push(path); .. }
\* with the early return after the first push when find_all is false
PushCurrent(result, with_current, index, fa) ==
    IF with_current = <<>> THEN result
    ELSE IF ~fa THEN Append(result, Append(with_current[1], index))
    ELSE result \o [k \in 1 .. Len(with_current) |->
                        Append(with_current[k], index)]

\* dp_search: the value is the returned list and the memo table after the
\* call; lo and hi are the ends of target_range
RECURSIVE dp_search(_, _, _, _, _, _, _)
dp_search(nums, index, remaining, memo, lo, hi, fa) ==
    IF index = Len(nums)
    THEN [res |-> IF lo <= remaining /\ remaining <= hi THEN << <<>> >>
                  ELSE <<>>,
          memo |-> memo]
    ELSE IF <<index, remaining>> \in DOMAIN memo
    THEN [res |-> memo[<<index, remaining>>], memo |-> memo]
    ELSE LET excl == dp_search(nums, index + 1, remaining, memo, lo, hi, fa)
             incl == dp_search(nums, index + 1, remaining - nums[index + 1],
                               excl.memo, lo, hi, fa)
             result == PushCurrent(excl.res, incl.res, index, fa)
         IN  [res |-> result,
              memo |-> MemoInsert(incl.memo, <<index, remaining>>, result)]

\* dp_search(numbers, 0, target, &mut memo, target - precision ..=
\* target + precision, find_all)
dp_with_memoization(nums, t, p, fa) ==
    dp_search(nums, 0, t, <<>>, t - p, t + p, fa).res

----------------------------------------------------------------------------
(* branch_bound.rs *)

\* sorted_numbers: (val, idx) pairs sorted by descending absolute value
\* (sort_by(|a, b| b.0.abs().cmp(&a.0.abs())), a stable sort)
SortedNumbers(nums) ==
    StableSort([k \in 1 .. Len(nums) |->
        [key |-> -Abs(nums[k]), val |-> nums[k], idx |-> k - 1]])

SortedValues(nums) ==
    [k \in 1 .. Len(nums) |-> SortedNumbers(nums)[k].val]

IndicesMap(nums) ==
    [k \in 1 .. Len(nums) |-> SortedNumbers(nums)[k].idx]

\* min(ceil(n / 4.0), 10)
ParallelDepth(n) == Min((n + 3) \div 4, 10)

\* generate_tasks: the (current_sum, path) pairs in the order they are pushed
RECURSIVE generate_tasks(_, _, _, _, _, _)
generate_tasks(depth, max_depth, current_sum, path, vals, imap) ==
    IF depth = max_depth THEN <<[sum |-> current_sum, path |-> path]>>
    ELSE generate_tasks(depth + 1, max_depth, current_sum, path, vals, imap)
         \o generate_tasks(depth + 1, max_depth,
                           current_sum + vals[depth + 1],
                           Append(path, imap[depth + 1]), vals, imap)

\* sum of the elements of vals[start_depth..] of the given sign (1 or -1)
RECURSIVE RemainingSum(_, _, _)
RemainingSum(vals, start_depth, sign) ==
    IF start_depth >= Len(vals) THEN 0
    ELSE (IF vals[start_depth + 1] * sign > 0 THEN vals[start_depth + 1]
          ELSE 0)
         + RemainingSum(vals, start_depth + 1, sign)

PrunedTooEarly(current_sum, vals, start_depth, t, p) ==
    IF p = 0
    THEN \/ current_sum + RemainingSum(vals, start_depth + 1, 1) < t
         \/ current_sum + RemainingSum(vals, start_depth + 1, -1) > t
    ELSE \/ current_sum + RemainingSum(vals, start_depth + 1, 1) < t - p
         \/ current_sum + RemainingSum(vals, start_depth + 1, -1) > t + p

\* the pruning test
Pruned(current_sum, vals, start_depth, t, p) ==
    IF p = 0
    THEN \/ current_sum + RemainingSum(vals, start_depth, 1) < t
         \/ current_sum + RemainingSum(vals, start_depth, -1) > t
    ELSE \/ current_sum + RemainingSum(vals, start_depth, 1) < t - p
         \/ current_sum + RemainingSum(vals, start_depth, -1) > t + p

RECURSIVE serial_branch_and_bound(_, _, _, _, _, _, _, _, _)
RECURSIVE SerialLoop(_, _, _, _, _, _, _, _, _)

\* the value is the result list after the call
serial_branch_and_bound(start_depth, sum, path, vals, imap, t, p, res, fa) ==
    LET matched == IsMatch(sum, t, p)
        res1 == IF matched THEN Append(res, path) ELSE res
    IN  IF matched /\ ~fa THEN res1
        ELSE IF Pruned(sum, vals, start_depth, t, p) THEN res1
        ELSE SerialLoop(start_depth, sum, path, vals, imap, t, p, res1, fa)

SerialLoopIncludeFirst(depth, current_sum, current_path, vals, imap, t, p, res, fa) ==
    IF depth >= Len(vals) THEN res
    ELSE LET incl == serial_branch_and_bound(depth + 1,
                         current_sum + vals[depth + 1],
                         Append(current_path, imap[depth + 1]),
                         vals, imap, t, p, res, fa)
         IN  IF ~fa /\ incl # <<>> THEN incl
             ELSE LET excl == serial_branch_and_bound(depth + 1,
                                  current_sum, current_path, vals, imap,
                                  t, p, incl, fa)
                  IN  IF ~fa /\ excl # <<>> THEN excl
                      ELSE SerialLoop(depth + 1, current_sum, current_path,
                                      vals, imap, t, p, excl, fa)

\* for depth in start_depth..n: the exclude call, then the include call
SerialLoop(depth, current_sum, current_path, vals, imap, t, p, res, fa) ==
    IF depth >= Len(vals) THEN res
    ELSE LET excl == serial_branch_and_bound(depth + 1, current_sum,
                         current_path, vals, imap, t, p, res, fa)
         IN  IF ~fa /\ excl # <<>> THEN excl
             ELSE LET incl == serial_branch_and_bound(depth + 1,
                                  current_sum + vals[depth + 1],
                                  Append(current_path, imap[depth + 1]),
                                  vals, imap, t, p, excl, fa)
                  IN  IF ~fa /\ incl # <<>> THEN incl
                      ELSE SerialLoop(depth + 1, current_sum, current_path,
                                      vals, imap, t, p, incl, fa)

BbTasks(nums) ==
    generate_tasks(0, ParallelDepth(Len(nums)), 0, <<>>,
                   SortedValues(nums), IndicesMap(nums))

\* local_results of task number k (0-based)
LocalResults(k) ==
    LET task == BbTasks(numbers)[k + 1]
    IN  serial_branch_and_bound(ParallelDepth(Len(numbers)), task.sum,
                                task.path, SortedValues(numbers),
                                IndicesMap(numbers), target, precision,
                                <<>>, find_all)

\* one task of the parallel for_each: the serial search, then the merge of
\* its local results under the result lock
BbTask(k) ==
    /\ phase = "running" /\ solver = "branch_bound" /\ pc[k] = "task"
    /\ IF LocalResults(k) # <<>>
       THEN /\ results_lock = -1
            /\ results' = results \o LocalResults(k)
       ELSE results' = results
    /\ pc' = [pc EXCEPT ![k] = "done"]
    /\ UNCHANGED <<problem, phase, solver, found, results_lock, mask, pos,
                   ret, call, prev_sums>>

BbReturn ==
    /\ phase = "running" /\ solver = "branch_bound" /\ AllDone
    /\ results_lock = -1
    /\ ret' = Truncate(find_all, results)
    /\ phase' = "done"
    /\ UNCHANGED <<problem, solver, results, found, results_lock, pc, mask,
                   pos, call, prev_sums>>

----------------------------------------------------------------------------
(* The solve call *)

\* the multiset of the element sums of a result list
SumBag(nums, rs) ==
    LET sums == {SumAt(nums, rs[k]) : k \in DOMAIN rs}
    IN  [s \in sums |->
            Cardinality({k \in DOMAIN rs : SumAt(nums, rs[k]) = s})]

SumSet(nums, rs) == {SumAt(nums, rs[k]) : k \in DOMAIN rs}

Workers == 0 .. num_cpus - 1

\* the state of the parallel workers when the selected solver starts
StartWorkers(total) ==
    /\ pc' = [w \in Workers |->
                IF BlockStart(total, num_cpus, w)
                     < BlockEnd(total, num_cpus, w)
                THEN "check" ELSE "done"]
    /\ mask' = [w \in Workers |-> BlockStart(total, num_cpus, w)]
    /\ pos' = [w \in Workers |-> 0]

\* rust_find_subset_sum: the match on the algorithm name
Select ==
    /\ phase = "call"
    /\ solver' = Dispatch(algorithm, Len(numbers))
    /\ phase' = "running"
    /\ results' = <<>>
    /\ found' = FALSE
    /\ results_lock' = -1
    /\ CASE solver' = "bit_enum" -> StartWorkers(BitTotal)
         [] solver' = "meet_middle" -> StartWorkers(MmTotal)
         [] solver' = "dp" -> pc' = <<>> /\ mask' = <<>> /\ pos' = <<>>
         [] solver' = "branch_bound" ->
              /\ pc' = [k \in 0 .. (2 ^ ParallelDepth(Len(numbers))) - 1
                           |-> "task"]
              /\ mask' = <<>> /\ pos' = <<>>
    /\ UNCHANGED <<problem, ret, call, prev_sums>>

\* the caller solves the same Problem a second time
SolveAgain ==
    /\ phase = "done" /\ call = 1
    /\ call' = 2
    /\ prev_sums' = SumBag(numbers, ret)
    /\ phase' = "call"
    /\ solver' = "none"
    /\ results' = <<>> /\ found' = FALSE /\ results_lock' = -1
    /\ pc' = <<>> /\ mask' = <<>> /\ pos' = <<>>
    /\ ret' = <<>>
    /\ UNCHANGED problem

\* the inputs of the scenarios of the specification and of the unit tests
ScenarioA == <<1, 2, 3, 4, 5>>

ScenarioB == <<1, 2, 3, 4, 5, 6, 7, 8, 9>>

ScenarioD == <<5>>

InitCall ==
    /\ phase = "call" /\ solver = "none"
    /\ results = <<>> /\ found = FALSE /\ results_lock = -1
    /\ pc = <<>> /\ mask = <<>> /\ pos = <<>>
    /\ ret = <<>> /\ call = 1 /\ prev_sums = <<>>

\* one Problem, an algorithm name and a worker count: every short input over
\* the small values, and the scenario inputs
Init ==
    /\ InitCall
    /\ algorithm \in SolverNames
    /\ num_cpus \in 1 .. MaxWorkers
    /\ \/ /\ numbers \in SeqsUpTo(Vals, MaxLen)
          /\ target \in Targets
          /\ precision \in Precisions
          /\ find_all \in BOOLEAN
       \/ /\ numbers = ScenarioA /\ target = 9 /\ precision = 0
          /\ find_all \in BOOLEAN
       \/ /\ numbers = ScenarioB /\ target = 10 /\ precision = 0
          /\ find_all = FALSE /\ algorithm = "branch_bound" /\ num_cpus = 1
       \/ /\ numbers = ScenarioD /\ target \in {5, 10} /\ precision = 2
          /\ find_all \in BOOLEAN

Next ==
    \/ Select
    \/ \E w \in DOMAIN pc : LockFound(w)
    \/ \E w \in DOMAIN pc : BitCheck(w) \/ BitPush(w) \/ BitSetFound(w)
    \/ BitReturn
    \/ \E w \in DOMAIN pc : MmCheck(w) \/ MmPush(w) \/ MmSetFound(w)
    \/ MmReturn
    \/ DpSolve
    \/ \E k \in DOMAIN pc : BbTask(k)
    \/ BbReturn
    \/ SolveAgain

Spec == Init /\ [][Next]_vars

\* the selector alone, on input lengths around its thresholds
InitSel ==
    /\ InitCall
    /\ numbers \in {[i \in 1 .. k |-> 0] : k \in 0 .. MaxSelLen}
    /\ target = 0 /\ precision = 0
    /\ find_all \in BOOLEAN
    /\ algorithm \in SolverNames \cup OtherNames
    /\ num_cpus \in 1 .. MaxWorkers

NextSel == Select

SpecSel == InitSel /\ [][NextSel]_vars

----------------------------------------------------------------------------
(* Reference notions the properties are stated with *)

Range(s) == {s[i] : i \in DOMAIN s}

\* s is within the tolerance of the target
Within(s) == target - precision <= s /\ s <= target + precision

RECURSIVE SetSum(_)
SetSum(S) ==
    IF S = {} THEN 0
    ELSE LET i == CHOOSE x \in S : TRUE
         IN  numbers[i + 1] + SetSum(S \ {i})

\* every index set of the input whose element sum is within the tolerance:
\* what an exhaustive enumeration of all 2^n subsets finds
ValidSets == {S \in SUBSET (0 .. Len(numbers) - 1) : Within(SetSum(S))}

Returned == phase = "done"

----------------------------------------------------------------------------
(* Properties *)

\* C1: every index list of a returned ResultSet selects elements whose sum
\* is within tolerance of target, and equals target when tolerance = 0, for
\* every solver and every interleaving of the workers.
Soundness ==
    Returned =>
        \A k \in DOMAIN ret :
            /\ Within(SumAt(numbers, ret[k]))
            /\ precision = 0 => SumAt(numbers, ret[k]) = target

\* a parallel solver has returned several Solutions under a tolerance > 0,
\* one of them with a sum other than target
SoundnessWitness ==
    /\ Returned /\ precision > 0 /\ num_cpus > 1 /\ Len(ret) > 1
    /\ solver = "meet_middle"
    /\ \E k \in DOMAIN ret : SumAt(numbers, ret[k]) # target

\* C2: with find_all false the returned ResultSet holds 0 or 1 Solutions, for
\* each of the four solvers and every interleaving.
AtMostOneWhenNotFindAll ==
    (Returned /\ ~find_all) => Len(ret) <= 1

\* C3: with find_all true the returned ResultSet contains every index set
\* whose element sum is within tolerance of target.
Completeness ==
    (Returned /\ find_all) =>
        \A S \in ValidSets : \E k \in DOMAIN ret : Range(ret[k]) = S

\* the set of sums that bit-enumeration returns with find_all true: the sums
\* of the masks that pass its match test
BitEnumSums ==
    {SumAt(numbers, BitIndices(m)) : m \in
        {x \in 0 .. BitTotal - 1 :
            IsMatch(SumAt(numbers, BitIndices(x)), target, precision)}}

\* C4: with find_all true the set of element sums of the returned Solutions
\* is the same whichever of the four solvers ran: it is the set that
\* bit-enumeration returns.
AlgorithmAgreement ==
    (Returned /\ find_all) => SumSet(numbers, ret) = BitEnumSums

\* C5 as stated: the second of two solve calls with the identical Problem and
\* algorithm returns the multiset of sums of the first, for either value of
\* find_all and every tolerance.
Idempotence ==
    (Returned /\ call = 2) => SumBag(numbers, ret) = prev_sums

\* C5 amended: the two calls return equal multisets of sums when find_all is
\* true; when find_all is false they do so in the serial dp solver, and with
\* tolerance 0 in the two solvers that truncate, bit_enum and branch_bound.
IdempotenceFindAll ==
    (/\ Returned /\ call = 2
     /\ \/ find_all
        \/ solver = "dp"
        \/ precision = 0 /\ solver \in {"bit_enum", "branch_bound"})
    => SumBag(numbers, ret) = prev_sums

\* the second call of a parallel solver has returned several Solutions with
\* different sums
IdempotenceWitness ==
    /\ Returned /\ call = 2 /\ find_all /\ num_cpus > 1
    /\ solver = "bit_enum" /\ precision > 0
    /\ Cardinality(SumSet(numbers, ret)) > 1

\* C6: the four solver names dispatch to that solver whatever n is; every
\* other name dispatches by size (n <= 25 bit_enum, n <= 40 meet_middle, else
\* branch_bound); dp is chosen only by its name; the dispatch of a name never
\* fails.
SelectionPolicy ==
    /\ phase = "call" => ENABLED Select
    /\ phase = "running" =>
        LET n == Len(numbers)
        IN  /\ algorithm \in {"bit_enum", "meet_middle", "dp", "branch_bound"}
                => solver = algorithm
            /\ algorithm \notin
                    {"bit_enum", "meet_middle", "dp", "branch_bound"}
                => /\ n <= 25 => solver = "bit_enum"
                   /\ (25 < n /\ n <= 40) => solver = "meet_middle"
                   /\ n > 40 => solver = "branch_bound"
            /\ solver = "dp" => algorithm = "dp"

\* an unrecognized name on an input of more than 40 elements was dispatched
SelectionWitness ==
    /\ phase = "running" /\ algorithm \notin SolverNames
    /\ algorithm # "auto" /\ Len(numbers) > 40
    /\ solver = "branch_bound"

\* C7: no solve call on a well-formed Problem panics.
Totality == phase # "panic"

\* C8 as stated: on an empty input every solver returns an empty ResultSet.
EmptyInputEmptyResult ==
    (Returned /\ numbers = <<>>) => ret = <<>>

\* C8 amended: on an empty input the returned ResultSet is empty or holds
\* exactly the empty index list, the latter only if |target| <= tolerance,
\* and bit_enum, meet_middle and branch_bound return the empty index list
\* whenever |target| <= tolerance.
EmptyInputResult ==
    (Returned /\ numbers = <<>>) =>
        /\ ret = <<>> \/ ret = << <<>> >>
        /\ ret # <<>> => Within(0)
        /\ (solver # "dp" /\ Within(0)) => ret = << <<>> >>

\* an empty input with a target other than 0 returned the empty index list
EmptyInputWitness ==
    /\ Returned /\ numbers = <<>> /\ ret = << <<>> >>
    /\ target # 0 /\ solver = "meet_middle"

ScenarioACall ==
    /\ Returned /\ solver = "bit_enum" /\ numbers = ScenarioA
    /\ target = 9 /\ precision = 0 /\ find_all

ScenarioBCall ==
    /\ Returned /\ solver = "branch_bound" /\ numbers = ScenarioB
    /\ target = 10 /\ precision = 0 /\ ~find_all

BranchBoundCall ==
    Returned /\ solver = "branch_bound" /\ ~find_all

\* C11 as stated: with find_all false the ResultSet returned by
\* branch-and-bound keeps every Solution the parallel tasks recorded; no
\* truncation to one Solution is applied.
BranchBoundKeepsAll ==
    BranchBoundCall => ret = results

\* C11 amended: with find_all false the shared list keeps the Solution of
\* every task that recorded one, but the returned ResultSet is truncated to
\* the first of them when there is more than one.
BranchBoundTruncates ==
    BranchBoundCall =>
        /\ Len(results) > 1 => ret = <<results[1]>>
        /\ Len(results) <= 1 => ret = results

\* several tasks of a find_all = false call each recorded a match
BranchBoundWitness ==
    BranchBoundCall /\ Len(results) > 2 /\ Len(ret) = 1

\* C12: on an input with negative elements dp with find_all true returns
\* exactly the index sets whose sum is within tolerance of target.
DpHandlesNegatives ==
    (/\ Returned /\ solver = "dp" /\ find_all
     /\ \E i \in DOMAIN numbers : numbers[i] < 0)
    => {Range(ret[k]) : k \in DOMAIN ret} = ValidSets

NoRepeat(s) == Cardinality(Range(s)) = Len(s)

\* C13: every returned index list holds only positions 0 .. n - 1 of the
\* input and holds no position twice.
WellFormedSolutions ==
    Returned =>
        \A k \in DOMAIN ret :
            /\ Range(ret[k]) \subseteq 0 .. Len(numbers) - 1
            /\ NoRepeat(ret[k])

\* branch-and-bound returned a list of several positions in the order of the
\* sorted values, not of the input
WellFormedWitness ==
    /\ Returned /\ solver = "branch_bound"
    /\ \E k \in DOMAIN ret :
          Len(ret[k]) > 1 /\ ret[k][1] > ret[k][2]

SingleElementCall ==
    /\ Returned /\ solver = "meet_middle" /\ Len(numbers) = 1 /\ find_all

\* C14 as stated: for a single element x meet-in-the-middle with find_all
\* true returns exactly [[0]] when |x - target| <= tolerance and nothing
\* otherwise.
SingleElementOnly ==
    SingleElementCall =>
        ret = IF Within(numbers[1]) THEN << <<0>> >> ELSE <<>>

\* C14 amended: for a single element x the ResultSet holds [0] exactly when
\* |x - target| <= tolerance and the empty index list exactly when
\* |target| <= tolerance, each once and nothing else.
SingleElementResult ==
    SingleElementCall =>
        /\ Range(ret) = (IF Within(numbers[1]) THEN {<<0>>} ELSE {})
                            \cup (IF Within(0) THEN {<<>>} ELSE {})
        /\ NoRepeat(ret)

\* a single element and the empty selection were both returned
SingleElementWitness ==
    SingleElementCall /\ Len(ret) = 2 /\ num_cpus > 1 /\ numbers[1] # 0

\* the workers whose mask range [BlockStart, BlockEnd) holds mask m
Owners(m, total) ==
    {w \in Workers : /\ BlockStart(total, num_cpus, w) <= m
                     /\ m < BlockEnd(total, num_cpus, w)}

PartitionOf(total) ==
    /\ \A m \in 0 .. total - 1 : Cardinality(Owners(m, total)) = 1
    /\ \A w \in Workers :
          BlockStart(total, num_cpus, w) < BlockEnd(total, num_cpus, w)
              => BlockEnd(total, num_cpus, w) <= total

\* C15: for every worker count the mask ranges of the workers are pairwise
\* disjoint and cover exactly [0, M), so with find_all true bit-enumeration
\* tests every mask once: every valid index set is returned exactly once.
MaskPartition ==
    /\ (phase = "running" /\ solver = "bit_enum") => PartitionOf(BitTotal)
    /\ (phase = "running" /\ solver = "meet_middle") => PartitionOf(MmTotal)
    /\ (Returned /\ solver = "bit_enum" /\ find_all) =>
          /\ Len(ret) = Cardinality(ValidSets)
          /\ {Range(ret[k]) : k \in DOMAIN ret} = ValidSets

\* more workers than masks, and a run of several workers that returned
\* matches from different ranges
MaskPartitionWitness ==
    /\ Returned /\ solver = "bit_enum" /\ find_all
    /\ num_cpus > BitTotal /\ Len(ret) > 1

RECURSIVE Log2(_)
Log2(x) == IF x <= 1 THEN 0 ELSE 1 + Log2(x \div 2)

\* C16: for every n <= 64 bit-enumeration enumerates all 2^n masks (the
\* number of masks is a power of two whose exponent is n), so that every
\* position, those from 30 on included, occurs in some enumerated mask.
ExhaustiveUpTo64 ==
    (phase = "running" /\ solver = "bit_enum" /\ Len(numbers) <= 64)
    => Log2(BitTotal) = Len(numbers)

BitFirstOnlyCall ==
    Returned /\ solver = "bit_enum" /\ ~find_all

\* C17: with find_all false bit-enumeration returns exactly the Solution
\* appended first to the shared list when some mask matches, and an empty
\* ResultSet when none does, on every interleaving.
BitEarlyExit ==
    BitFirstOnlyCall =>
        IF ValidSets # {}
        THEN Len(ret) = 1 /\ results # <<>> /\ ret[1] = results[1]
        ELSE ret = <<>>

\* racing workers appended different Solutions before the flag was seen
BitEarlyExitWitness ==
    /\ BitFirstOnlyCall /\ Len(results) > 1
    /\ results[1] # results[Len(results)]

FirstOnlyRun ==
    /\ phase = "running" /\ solver \in {"bit_enum", "meet_middle"}
    /\ ~find_all

LiveInputs ==
    {<<>>, <<1>>, <<0, 0>>, <<-1, 1>>, <<1, 2>>, <<1, 1, 2>>}

\* the calls of the two solvers that run workers over mask ranges
InitLive ==
    /\ InitCall
    /\ algorithm \in {"bit_enum", "meet_middle"}
    /\ num_cpus \in 1 .. MaxWorkers
    /\ numbers \in LiveInputs
    /\ target \in Targets
    /\ precision \in Precisions
    /\ find_all \in BOOLEAN

NextLive ==
    \/ Select
    \/ \E w \in DOMAIN pc : LockFound(w)
    \/ \E w \in DOMAIN pc : BitCheck(w) \/ BitPush(w) \/ BitSetFound(w)
    \/ BitReturn
    \/ \E w \in DOMAIN pc : MmCheck(w) \/ MmPush(w) \/ MmSetFound(w)
    \/ MmReturn

\* the pool keeps running a thread that can take a step, and the caller
\* resumes once for_each has joined its workers; a run has no cycle, so this
\* is as strong as fairness to each worker on its own
LiveSpec == InitLive /\ [][NextLive]_vars /\ WF_vars(NextLive)

ParallelRun ==
    phase = "running" /\ solver \in {"bit_enum", "meet_middle"}

\* C19: under fair scheduling and for both find_all values every run of
\* bit-enumeration or meet-in-the-middle reaches the state where every
\* worker has finished its mask range or exited early and the solve call has
\* returned; no worker waits forever on the result lock or the flag lock.
Termination ==
    ParallelRun ~> (Returned /\ AllDone)

\* a returned first-only run in which workers contended for both locks
TerminationWitness ==
    /\ Returned /\ solver \in {"bit_enum", "meet_middle"} /\ AllDone
    /\ ~find_all /\ num_cpus > 2 /\ Len(results) > 2

MeetMiddleAllCall ==
    Returned /\ solver = "meet_middle" /\ find_all

Ascending(s) == \A i, j \in DOMAIN s : i < j => s[i] < s[j]

\* C20: with find_all true meet-in-the-middle emits, for each second-half
\* subset, one Solution per first-half subset whose sum is in the window and
\* no other, as first-half indices followed by second-half indices: the
\* ResultSet holds every valid index set of the input exactly once, each
\* listed in ascending positions, for every worker count and tolerance.
WindowMatching ==
    MeetMiddleAllCall =>
        /\ Len(ret) = Cardinality(ValidSets)
        /\ {Range(ret[k]) : k \in DOMAIN ret} = ValidSets
        /\ \A k \in DOMAIN ret : Ascending(ret[k])

\* a window of several first-half sums, scanned by more than one worker,
\* with a Solution joining indices of both halves
WindowMatchingWitness ==
    /\ MeetMiddleAllCall /\ precision > 0 /\ num_cpus > 1
    /\ Len(ret) > 2
    /\ \E k \in DOMAIN ret : Len(ret[k]) > 1

BranchBoundAllCall ==
    Returned /\ solver = "branch_bound" /\ find_all

\* C21: with find_all true the pruning of branch-and-bound never discards a
\* node with a valid index set beneath it: the distinct index sets returned
\* are exactly the valid index sets, for positive, zero and negative elements
\* and every pre-split depth.
PruningSafe ==
    BranchBoundAllCall => {Range(ret[k]) : k \in DOMAIN ret} = ValidSets

\* a task is pruned at its root while another one finds a valid index set
\* that selects a negative element
PruningWitness ==
    /\ BranchBoundAllCall /\ ret # <<>>
    /\ \E i \in DOMAIN numbers : numbers[i] < 0
    /\ \E k \in DOMAIN BbTasks(numbers) :
          /\ ~Within(BbTasks(numbers)[k].sum)
          /\ Pruned(BbTasks(numbers)[k].sum, SortedValues(numbers),
                    ParallelDepth(Len(numbers)), target, precision)

\* the first match below a node in depth-first order, the branch without
\* the element at position d before the branch with it: a list of at most
\* one path
RECURSIVE FirstDfs(_, _, _, _, _)
FirstDfs(d, sum, path, vals, imap) ==
    IF Within(sum) THEN <<path>>
    ELSE IF d >= Len(vals) THEN <<>>
    ELSE LET excl == FirstDfs(d + 1, sum, path, vals, imap)
         IN  IF excl # <<>> THEN excl
             ELSE FirstDfs(d + 1, sum + vals[d + 1],
                           Append(path, imap[d + 1]), vals, imap)

TaskFirst(k) ==
    FirstDfs(ParallelDepth(Len(numbers)), BbTasks(numbers)[k].sum,
             BbTasks(numbers)[k].path, SortedValues(numbers),
             IndicesMap(numbers))

\* C22: with find_all false every branch-and-bound task contributes at most
\* one Solution, the first match in exclude-before-include depth-first order
\* beneath its node: the shared list holds exactly these first matches, one
\* for each task that has a match.
SerialEarlyReturn ==
    BranchBoundCall =>
        /\ Len(results)
             = Cardinality({k \in DOMAIN BbTasks(numbers) :
                               TaskFirst(k) # <<>>})
        /\ \A k \in DOMAIN BbTasks(numbers) :
              TaskFirst(k) # <<>> =>
                  \E i \in DOMAIN results : results[i] = TaskFirst(k)[1]

\* some task has several valid index sets beneath its node and recorded one
SerialEarlyReturnWitness ==
    /\ BranchBoundCall /\ results # <<>>
    /\ Cardinality(ValidSets) > Len(BbTasks(numbers))
    /\ Len(numbers) > 1

\* C23: for non-negative numbers, target >= 0 and tolerance > 0, tolerance
\* above target included, dp with find_all true returns every index set
\* whose sum lies in [target - tolerance, target + tolerance].
DpToleranceWindow ==
    (/\ Returned /\ solver = "dp" /\ find_all
     /\ precision > 0 /\ target >= 0
     /\ \A i \in DOMAIN numbers : numbers[i] >= 0)
    => ValidSets \subseteq {Range(ret[k]) : k \in DOMAIN ret}

\* C24: with find_all true no index set appears more than once in the
\* ResultSet returned by any of the four solvers.
NoDuplicateSolutions ==
    (Returned /\ find_all)
    => Cardinality({Range(ret[k]) : k \in DOMAIN ret}) = Len(ret)

\* a call of the memoized alternative on a bounded Problem
InitMemo ==
    /\ InitCall
    /\ algorithm = "dp" /\ num_cpus = 1
    /\ numbers \in SeqsUpTo(Vals, MaxLen)
    /\ target \in Targets
    /\ precision \in Precisions
    /\ find_all \in BOOLEAN

MemoSolve ==
    /\ phase = "call"
    /\ solver' = "dp_memo"
    /\ ret' = dp_with_memoization(numbers, target, precision, find_all)
    /\ phase' = "done"
    /\ UNCHANGED <<problem, results, found, results_lock, pc, mask, pos,
                   call, prev_sums>>

NextMemo == MemoSolve

SpecMemo == InitMemo /\ [][NextMemo]_vars

MemoCall == Returned /\ solver = "dp_memo"

\* C25: dp_with_memoization returns only index sets whose sum is within
\* tolerance of target, all of them when find_all is true, and at most one
\* Solution when find_all is false.
MemoizedDp ==
    MemoCall =>
        /\ \A k \in DOMAIN ret : Within(SetSum(Range(ret[k])))
        /\ find_all => {Range(ret[k]) : k \in DOMAIN ret} = ValidSets
        /\ ~find_all => Len(ret) <= 1

\* a sorted array of (sum, indices) pairs whose sums are the given numbers
SearchArray ==
    [k \in DOMAIN numbers |-> [key |-> numbers[k], indices |-> <<k - 1>>]]

\* a call of binary_search_lower_bound on its own: every array sorted
\* ascending by sum, the empty one and those with equal sums included; the
\* sums are held in numbers, the bound in target
InitSearch ==
    /\ InitCall
    /\ algorithm = "meet_middle" /\ num_cpus = 1
    /\ numbers \in {s \in SeqsUpTo(Vals, MaxArr) :
                       \A i, j \in DOMAIN s : i < j => s[i] <= s[j]}
    /\ target \in -2 .. MaxVal + 1
    /\ precision = 0 /\ find_all = TRUE

\* let start_pos = binary_search_lower_bound(&first_half, lower_bound)
Search ==
    /\ phase = "call"
    /\ solver' = "search"
    /\ pos' = [w \in {0} |-> binary_search_lower_bound(SearchArray, target)]
    /\ phase' = "done"
    /\ UNCHANGED <<problem, results, found, results_lock, pc, mask, ret,
                   call, prev_sums>>

NextSearch == Search

SpecSearch == InitSearch /\ [][NextSearch]_vars

SearchCall == Returned /\ solver = "search"

\* C26: on an array sorted ascending by sum binary_search_lower_bound
\* terminates and returns the smallest position whose sum is >= the bound,
\* or the length of the array when every sum is below the bound.
LowerBoundCorrect ==
    SearchCall =>
        /\ pos[0] \in 0 .. Len(numbers)
        /\ \A k \in 1 .. pos[0] : numbers[k] < target
        /\ pos[0] < Len(numbers) => numbers[pos[0] + 1] >= target

\* the bound occurs twice in the array, behind smaller sums
LowerBoundWitness ==
    /\ SearchCall /\ Len(numbers) > 3 /\ pos[0] \in 1 .. 2
    /\ numbers[pos[0] + 1] = target /\ numbers[pos[0] + 2] = target

====
